---- MODULE Spec2Model ----
(***************************************************************************)
(* Cashflow stress testing: the financial formulas and the grid generator  *)
(* of src/src/model.py, the calibration resolver and the stress sweep of   *)
(* src/src/simulate.py, and the analytical break-even boundary that        *)
(* src/src/plots.py draws over the swept table.                            *)
(*                                                                         *)
(* Numbers.  The program computes in binary floating point.  The model     *)
(* computes in exact rational arithmetic: a float is a record [n, d] in    *)
(* lowest terms with d > 0.  np.round is modelled as what it does (round   *)
(* half to even at the given number of decimals).  The absolute            *)
(* tolerances of the program (1e-12, 1e-8) only absorb floating error: on  *)
(* rationals whose denominators are far below 1e8 they never change the    *)
(* outcome of the comparison they sit in, so each is modelled by the       *)
(* exact comparison, in an operator of its own (FloorTol, LeTol,           *)
(* BelowTol) named after the tolerance it stands for.                      *)
(***************************************************************************)
EXTENDS Integers, Sequences, FiniteSets, TLC

VARIABLES
    assumptions,   \* the loaded configuration (yaml.safe_load)
    preset_name,   \* --preset argument, or None
    base_rate,     \* the base interest rate handed to run_stress_test
    pc,            \* position of the caller (main of simulate.py / plots.py)
    calib,         \* what select_calibration returned or raised
    theta,         \* theta handed to run_stress_test
    preset_cfg,    \* preset body handed to run_stress_test
    shocks_bp,     \* run_stress_test: resolved rate-shock grid
    occ_grid,      \* run_stress_test: resolved occupancy grid
    oi,            \* run_stress_test: index of the outer loop (occupancy)
    si,            \* run_stress_test: index of the inner loop (shock)
    rows,          \* run_stress_test: the local list of rows built so far
    df,            \* what run_stress_test returned or raised
    occ_star,      \* plot_dscr_gap_surface: the analytical boundary
    gen_shocks,    \* what generate_rate_shocks_bp returned or raised
    gen_occ,       \* what generate_occupancy_grid returned or raised
    theta_yl       \* what theta_from_yield_ltv returned or raised

vars == <<assumptions, preset_name, base_rate, pc, calib, theta, preset_cfg,
          shocks_bp, occ_grid, oi, si, rows, df, occ_star, gen_shocks,
          gen_occ, theta_yl>>

(***************************************************************************)
(* Floats as exact rationals.                                              *)
(***************************************************************************)
Abs(x) == IF x < 0 THEN -x ELSE x

RECURSIVE Gcd(_, _)
Gcd(a, b) == IF b = 0 THEN a ELSE Gcd(b, a % b)

\* float(n/d), in lowest terms, the sign on the numerator
Float(n, d) ==
    LET g == Gcd(Abs(n), Abs(d))
        s == IF d < 0 THEN -1 ELSE 1
    IN  [n |-> s * (n \div g), d |-> s * (d \div g)]

FInt(k) == [n |-> k, d |-> 1]

FNeg(a) == [n |-> -a.n, d |-> a.d]

FAdd(a, b) ==
    LET g == Gcd(a.d, b.d)
    IN  Float(a.n * (b.d \div g) + b.n * (a.d \div g), (a.d \div g) * b.d)

FSub(a, b) == FAdd(a, FNeg(b))

FMul(a, b) ==
    LET g1 == Gcd(Abs(a.n), b.d)
        g2 == Gcd(Abs(b.n), a.d)
    IN  Float((a.n \div g1) * (b.n \div g2), (a.d \div g2) * (b.d \div g1))

\* a / b for b # 0 (Python raises ZeroDivisionError for b = 0: see the callers)
FDiv(a, b) == FMul(a, Float(b.d, b.n))

FLt(a, b) == a.n * b.d < b.n * a.d
FLe(a, b) == a.n * b.d <= b.n * a.d
FMin(a, b) == IF FLe(a, b) THEN a ELSE b
FMax(a, b) == IF FLe(a, b) THEN b ELSE a

FZero == FInt(0)
FOne == FInt(1)

\* np.floor
FFloor(a) == a.n \div a.d

\* floor(x + 1e-12)
FloorTol(x) == FFloor(x)

\* v <= bound + 1e-12
LeTol(v, bound) == FLe(v, bound)

\* abs(last - stop) > 1e-8 and stop >= last + 1e-8
BelowTol(last, stop) == FLt(last, stop)

RECURSIVE Pow10(_)
Pow10(k) == IF k = 0 THEN 1 ELSE 10 * Pow10(k - 1)

\* the integer nearest to a, ties to the even one
RoundHalfEven(a) ==
    LET f == FFloor(a)
        rem == a.n - f * a.d
    IN  IF 2 * rem < a.d THEN f
        ELSE IF 2 * rem > a.d THEN f + 1
        ELSE IF f % 2 = 0 THEN f ELSE f + 1

\* np.round(a, decimals)
np_round(a, decimals) ==
    Float(RoundHalfEven(FMul(a, FInt(Pow10(decimals)))), Pow10(decimals))

(***************************************************************************)
(* Python values: None, a returned value, a raised exception.              *)
(***************************************************************************)
None == [kind |-> "None"]
Ok(v) == [kind |-> "ok", value |-> v]
Raise(k, m) == [kind |-> k, msg |-> m]
IsOk(r) == r.kind = "ok"
IsError(r) == r.kind \notin {"None", "ok"}

(***************************************************************************)
(* Sequences.                                                              *)
(***************************************************************************)
Range(s) == {s[k] : k \in DOMAIN s}
Last(s) == s[Len(s)]
MapRound(s, decimals) == [k \in DOMAIN s |-> np_round(s[k], decimals)]

\* the least float of a non-empty finite set
MinOf(S) == CHOOSE m \in S : \A x \in S : FLe(m, x)

\* the ascending sequence of the members of a finite set
RECURSIVE AscendingOf(_)
AscendingOf(S) ==
    IF S = {} THEN <<>>
    ELSE LET m == MinOf(S) IN <<m>> \o AscendingOf(S \ {m})

\* np.unique: the sorted distinct values
np_unique(s) == AscendingOf(Range(s))

\* insert v into the ascending sequence s, after its equals
RECURSIVE InsertSorted(_, _)
InsertSorted(s, v) ==
    IF s = <<>> THEN <<v>>
    ELSE IF FLt(v, Head(s)) THEN <<v>> \o s
    ELSE <<Head(s)>> \o InsertSorted(Tail(s), v)

\* Python's sorted(): ascending, every occurrence kept
RECURSIVE sorted(_)
sorted(s) ==
    IF s = <<>> THEN <<>>
    ELSE InsertSorted(sorted(SubSeq(s, 1, Len(s) - 1)), Last(s))

\* start + step * np.arange(n)
Arange(start, step, n) ==
    [k \in 1..(IF n > 0 THEN n ELSE 0) |-> FAdd(start, FMul(step, FInt(k - 1)))]

(***************************************************************************)
(* model.py: financial formulas.                                           *)
(***************************************************************************)
net_operating_income(revenue, operating_cost_ratio) ==
    FMul(revenue, FSub(FOne, operating_cost_ratio))

interest_cost(interest_rate, debt_balance) == FMul(interest_rate, debt_balance)

\* net_cashflow with the operating costs left out
net_cashflow_gross(revenue, operating_cost_ratio, interest_rate, debt_balance) ==
    FSub(revenue, interest_cost(interest_rate, debt_balance))

net_cashflow(revenue, operating_cost_ratio, interest_rate, debt_balance) ==
    LET operating_costs == FMul(revenue, operating_cost_ratio)
    IN  FSub(FSub(revenue, operating_costs),
             interest_cost(interest_rate, debt_balance))

\* dscr guarding interest < 0 only: a zero interest cost reaches the division
dscr_strict(revenue, operating_cost_ratio, interest_rate, debt_balance) ==
    LET interest == interest_cost(interest_rate, debt_balance)
    IN  IF FLt(interest, FZero)
        THEN Raise("ValueError", "Interest cost must be positive for DSCR.")
        ELSE IF interest = FZero
        THEN Raise("ZeroDivisionError", "float division by zero")
        ELSE Ok(FDiv(FMul(revenue, FSub(FOne, operating_cost_ratio)), interest))

dscr(revenue, operating_cost_ratio, interest_rate, debt_balance) ==
    LET interest == interest_cost(interest_rate, debt_balance)
    IN  IF FLe(interest, FZero)
        THEN Raise("ValueError", "Interest cost must be positive for DSCR.")
        ELSE Ok(FDiv(FMul(revenue, FSub(FOne, operating_cost_ratio)), interest))

\* the break-even occupancy with the operating costs left out
analytical_break_even_gross(interest_rate, operating_cost_ratio, debt_balance, base_rent) ==
    FDiv(FMul(interest_rate, debt_balance), base_rent)

analytical_break_even_occupancy(interest_rate, operating_cost_ratio, debt_balance, base_rent) ==
    FDiv(FMul(interest_rate, debt_balance),
         FMul(FSub(FOne, operating_cost_ratio), base_rent))

theta_from_yield_ltv(gross_yield, ltv) ==
    IF FLe(ltv, FZero) THEN Raise("ValueError", "ltv must be > 0")
    ELSE Ok(FDiv(gross_yield, ltv))

(***************************************************************************)
(* model.py: stress grid generation.                                       *)
(***************************************************************************)
GridDecimals == 6

\* inclusive_arange without the step that appends a stop off the lattice
inclusive_arange_open(start, stop, step, decimals) ==
    IF FLe(step, FZero) THEN Raise("ValueError", "step must be > 0")
    ELSE
    LET n == FloorTol(FDiv(FSub(stop, start), step)) + 1
        kept == SelectSeq(Arange(start, step, n), LAMBDA v : LeTol(v, stop))
        rounded == MapRound(kept, decimals)
    IN  Ok(np_unique(IF Len(rounded) = 0 THEN <<np_round(start, decimals)>>
                     ELSE rounded))

inclusive_arange(start, stop, step, decimals) ==
    IF FLe(step, FZero) THEN Raise("ValueError", "step must be > 0")
    ELSE
    LET n == FloorTol(FDiv(FSub(stop, start), step)) + 1
        generated == Arange(start, step, n)
        kept == SelectSeq(generated, LAMBDA v : LeTol(v, stop))
        rounded == MapRound(kept, decimals)
        nonempty == IF Len(rounded) = 0 THEN <<np_round(start, decimals)>>
                    ELSE rounded
        closed == IF BelowTol(Last(nonempty), stop)
                  THEN Append(nonempty, np_round(stop, decimals))
                  ELSE nonempty
    IN  Ok(np_unique(closed))

generate_rate_shocks_bp(a) ==
    LET ir == IF "interest_rate_stress" \in DOMAIN a
              THEN a.interest_rate_stress ELSE <<>>
    IN  IF "shocks_bp" \in DOMAIN ir THEN Ok(sorted(ir.shocks_bp))
        ELSE IF {"start_bp", "stop_bp", "step_bp"} \subseteq DOMAIN ir
        THEN inclusive_arange(ir.start_bp, ir.stop_bp, ir.step_bp, GridDecimals)
        ELSE Raise("KeyError", "start_bp")

generate_occupancy_grid(a) ==
    LET rs == IF "revenue_stress" \in DOMAIN a THEN a.revenue_stress ELSE <<>>
    IN  IF "occupancy_multipliers" \in DOMAIN rs
        THEN Ok(sorted(rs.occupancy_multipliers))
        ELSE IF "occupancy_range" \notin DOMAIN rs
        THEN Raise("KeyError", "occupancy_range")
        ELSE LET occ == rs.occupancy_range
             IN  inclusive_arange(occ.start, occ.stop, occ.step, GridDecimals)

(***************************************************************************)
(* simulate.py: the grids run_stress_test resolves for itself.             *)
(***************************************************************************)
\* frange generating one value too many, which the clamp folds onto stop
frange_extra(start, stop, step) ==
    IF step = FZero THEN Raise("ZeroDivisionError", "float division by zero")
    ELSE
    LET n == FloorTol(FDiv(FSub(stop, start), step)) + 2
        vals == Arange(start, step, n)
        lo == FMin(start, stop)
        hi == FMax(start, stop)
    IN  Ok([k \in DOMAIN vals |-> FMax(lo, FMin(vals[k], hi))])

frange(start, stop, step) ==
    IF step = FZero THEN Raise("ZeroDivisionError", "float division by zero")
    ELSE
    LET n == FloorTol(FDiv(FSub(stop, start), step)) + 1
        vals == Arange(start, step, n)
        lo == FMin(start, stop)
        hi == FMax(start, stop)
    IN  Ok([k \in DOMAIN vals |-> FMax(lo, FMin(vals[k], hi))])

get_rate_shocks_bp(a) ==
    LET cfg == a.interest_rate_stress
    IN  IF "start_bp" \notin DOMAIN cfg THEN Raise("KeyError", "start_bp")
        ELSE frange(cfg.start_bp, cfg.stop_bp, cfg.step_bp)

HasOverride(p) == p # None /\ "occupancy_range_override" \in DOMAIN p

get_occupancy_grid(a, p) ==
    IF "occupancy_range" \notin DOMAIN a.revenue_stress
    THEN Raise("KeyError", "occupancy_range")
    ELSE LET occ_cfg == IF HasOverride(p) THEN p.occupancy_range_override
                        ELSE a.revenue_stress.occupancy_range
         IN  frange(occ_cfg.start, occ_cfg.stop, occ_cfg.step)

(***************************************************************************)
(* simulate.py: the calibration resolver.                                  *)
(***************************************************************************)
\* Python's None where a preset name is expected (no preset bears this name)
NoName == "None"

EffectiveName(a, requested) ==
    IF requested # NoName THEN requested
    ELSE IF "default_preset" \in DOMAIN a.calibration
    THEN a.calibration.default_preset ELSE NoName

\* a / b as Python divides floats
PyDiv(a, b) ==
    IF b = FZero THEN Raise("ZeroDivisionError", "float division by zero")
    ELSE Ok(FDiv(a, b))

\* the chain with the yield / LTV pair tried before the direct ratio
PresetTheta_yield_first(cfg, name) ==
    IF "gross_yield" \in DOMAIN cfg /\ "ltv" \in DOMAIN cfg
    THEN PyDiv(cfg.gross_yield, cfg.ltv)
    ELSE IF "rent_to_debt_ratio" \in DOMAIN cfg THEN Ok(cfg.rent_to_debt_ratio)
    ELSE IF "annual_rent_gbp" \in DOMAIN cfg /\ "mortgage_balance_gbp" \in DOMAIN cfg
    THEN PyDiv(cfg.annual_rent_gbp, cfg.mortgage_balance_gbp)
    ELSE [kind |-> "ValueError", msg |-> "must define rent_to_debt_ratio OR (gross_yield and ltv) OR (annual_rent_gbp and mortgage_balance_gbp)", name |-> name]

\* the if / elif chain of select_calibration: the theta of a preset body
PresetTheta(cfg, name) ==
    IF "rent_to_debt_ratio" \in DOMAIN cfg THEN Ok(cfg.rent_to_debt_ratio)
    ELSE IF "gross_yield" \in DOMAIN cfg /\ "ltv" \in DOMAIN cfg
    THEN PyDiv(cfg.gross_yield, cfg.ltv)
    ELSE IF "annual_rent_gbp" \in DOMAIN cfg /\ "mortgage_balance_gbp" \in DOMAIN cfg
    THEN PyDiv(cfg.annual_rent_gbp, cfg.mortgage_balance_gbp)
    ELSE [kind |-> "ValueError", msg |-> "must define rent_to_debt_ratio OR (gross_yield and ltv) OR (annual_rent_gbp and mortgage_balance_gbp)", name |-> name]

select_calibration(a, requested) ==
    LET presets == a.calibration.presets
        name == EffectiveName(a, requested)
    IN  IF name \notin DOMAIN presets
        THEN [kind |-> "ValueError", msg |-> "Unknown preset", name |-> name,
              available |-> DOMAIN presets]
        ELSE LET cfg == presets[name]
                 t == PresetTheta(cfg, name)
             IN  IF IsOk(t)
                 THEN Ok([theta |-> t.value, name |-> name, cfg |-> cfg])
                 ELSE t

(***************************************************************************)
(* simulate.py: the stress sweep.                                          *)
(***************************************************************************)
BpPerUnit == 10000

Rent(a) == a.base_cashflow.gross_annual_rent
OpexRatio(a) == a.base_cashflow.operating_cost_ratio

\* debt = rent / float(theta)
Debt(a, t) == FDiv(Rent(a), t)

\* r = base_rate + float(shock) / 10_000.0
EffectiveRate(b, shock) == FAdd(b, FDiv(shock, FInt(BpPerUnit)))

\* the body of the inner loop: the row of one cell, or what dscr raises
Cell(a, b, t, occ, shock) ==
    LET r == EffectiveRate(b, shock)
        revenue == FMul(Rent(a), occ)
        cf == net_cashflow(revenue, OpexRatio(a), r, Debt(a, t))
        d == dscr(revenue, OpexRatio(a), r, Debt(a, t))
    IN  IF IsOk(d)
        THEN Ok([interest_rate |-> r, rate_shock_bp |-> shock,
                 occupancy_multiplier |-> occ, net_cashflow |-> cf,
                 dscr |-> d.value])
        ELSE d

\* the loop position after the cell (o, s): <<next o, next s>>
NextCell(o, s, nshocks) == IF s < nshocks THEN <<o, s + 1>> ELSE <<o + 1, 1>>

(***************************************************************************)
(* plots.py: the analytical DSCR = 1 boundary over the swept table.        *)
(***************************************************************************)
\* _pivot_grid: np.sort(df[column].unique())
Centers(table, column) == np_unique([k \in DOMAIN table |-> table[k][column]])

OccStar(a, b, t, x) ==
    [k \in DOMAIN x |->
        analytical_break_even_occupancy(EffectiveRate(b, x[k]), OpexRatio(a),
                                        Debt(a, t), Rent(a))]

plot_dscr_gap_surface(table, a, t, b) ==
    IF Len(table) = 0 THEN Raise("KeyError", "dscr")
    ELSE LET x == Centers(table, "rate_shock_bp")
             y == Centers(table, "occupancy_multiplier")
         IN  IF Len(x) < 2 \/ Len(y) < 2
             THEN Raise("ValueError", "centers must be a 1D array with length >= 2")
             ELSE Ok(OccStar(a, b, t, x))

(***************************************************************************)
(* Configurations.                                                         *)
(***************************************************************************)
MaxLegacyLen == 3

SeqsUpTo(S, n) == UNION {[1..k -> S] : k \in 0..n}
Floats(S) == {FInt(k) : k \in S}

RangeBp(start, stop, step) == [start_bp |-> start, stop_bp |-> stop, step_bp |-> step]
LegacyBp(values) == [shocks_bp |-> values]
RangeOcc(start, stop, step) == [occupancy_range |-> [start |-> start, stop |-> stop, step |-> step]]
\* the values of the occupancy_multipliers mapping, in the order of the file
LegacyOcc(values) == [occupancy_multipliers |-> values]

\* a preset body: the fields of f that are present
Body(f) == [k \in {j \in DOMAIN f : f[j] # None} |-> f[k]]

DefaultCashflow == [gross_annual_rent |-> FInt(120000), operating_cost_ratio |-> Float(35, 100)]
DefaultRates == RangeBp(FInt(0), FInt(100), FInt(50))
DefaultOcc == RangeOcc(Float(1, 2), FOne, Float(1, 4))
DefaultCalibration == [default_preset |-> "base", presets |-> ("base" :> [rent_to_debt_ratio |-> Float(1, 10)])]

Assumptions(cf, ir, rs, cal) ==
    [base_cashflow |-> cf, interest_rate_stress |-> ir, revenue_stress |-> rs,
     calibration |-> cal]

\* nothing has run yet
Fresh ==
    /\ pc = "start"
    /\ calib = None /\ theta = None /\ preset_cfg = None
    /\ shocks_bp = None /\ occ_grid = None
    /\ oi = 0 /\ si = 0 /\ rows = <<>>
    /\ df = None /\ occ_star = None
    /\ gen_shocks = None /\ gen_occ = None /\ theta_yl = None

(***************************************************************************)
(* The grid generator, applied to grid specifications of both shapes.      *)
(***************************************************************************)
GridRateSpecs ==
    {RangeBp(a, b, c) : a \in Floats({-50, 0}), b \in Floats({0, 95, 100}),
                        c \in Floats({-10, 0, 10, 25})}
    \cup {LegacyBp(v) : v \in SeqsUpTo(Floats({-50, 0, 50}), MaxLegacyLen)}

GridOccSpecs ==
    {RangeOcc(a, b, c) : a \in {Float(1, 2), FOne}, b \in {Float(9, 10), FOne},
                         c \in {FZero, Float(1, 4)}}
    \cup {LegacyOcc(v) : v \in SeqsUpTo({Float(1, 2), FOne}, MaxLegacyLen)}

InitGrid ==
    /\ assumptions \in {Assumptions(DefaultCashflow, ir, rs, DefaultCalibration) :
                            ir \in GridRateSpecs, rs \in GridOccSpecs}
    /\ preset_name = NoName
    /\ base_rate = Float(5, 100)
    /\ Fresh

GenerateRateShocksBp ==
    /\ gen_shocks = None
    /\ gen_shocks' = generate_rate_shocks_bp(assumptions)
    /\ UNCHANGED <<assumptions, preset_name, base_rate, pc, calib, theta,
                   preset_cfg, shocks_bp, occ_grid, oi, si, rows, df, occ_star,
                   gen_occ, theta_yl>>

GenerateOccupancyGrid ==
    /\ gen_occ = None
    /\ gen_occ' = generate_occupancy_grid(assumptions)
    /\ UNCHANGED <<assumptions, preset_name, base_rate, pc, calib, theta,
                   preset_cfg, shocks_bp, occ_grid, oi, si, rows, df, occ_star,
                   gen_shocks, theta_yl>>

NextGrid == GenerateRateShocksBp \/ GenerateOccupancyGrid

SpecGrid == InitGrid /\ [][NextGrid]_vars

(***************************************************************************)
(* The calibration resolver, applied to presets of every encoding.         *)
(***************************************************************************)
PresetFields ==
    [rent_to_debt_ratio : {None, Float(8, 100)},
     gross_yield : {None, Float(6, 100)},
     ltv : {None, Float(6, 10), Float(-6, 10), FZero},
     annual_rent_gbp : {None, FInt(12000)},
     mortgage_balance_gbp : {None, FInt(100000)}]

PresetBodies == {Body(f) : f \in PresetFields}

YieldLtvPreset == [gross_yield |-> Float(6, 100), ltv |-> Float(6, 10)]

CalibConfigs ==
    {[presets |-> p] : p \in {("a" :> b) : b \in PresetBodies}}
    \cup {[default_preset |-> d, presets |-> p] :
            d \in {"a", "b"},
            p \in {("a" :> b) : b \in PresetBodies}
                  \cup {("a" :> b) @@ ("b" :> YieldLtvPreset) : b \in PresetBodies}}

InitCalib ==
    /\ assumptions \in {Assumptions(DefaultCashflow, DefaultRates, DefaultOcc, c) :
                            c \in CalibConfigs}
    /\ preset_name \in {NoName, "a", "b", "zzz"}
    /\ base_rate = Float(5, 100)
    /\ Fresh

\* main: theta, preset_name, preset_cfg = select_calibration(assumptions, args.preset)
SelectCalibration ==
    /\ pc = "start"
    /\ LET r == select_calibration(assumptions, preset_name)
       IN  /\ calib' = r
           /\ IF IsOk(r)
              THEN /\ theta' = r.value.theta
                   /\ preset_cfg' = r.value.cfg
                   /\ pc' = "calibrated"
              ELSE /\ pc' = "failed"
                   /\ UNCHANGED <<theta, preset_cfg>>
    /\ UNCHANGED <<assumptions, preset_name, base_rate, shocks_bp, occ_grid, oi,
                   si, rows, df, occ_star, gen_shocks, gen_occ, theta_yl>>

\* theta_from_yield_ltv on the yield / LTV pair of a configured preset
ThetaFromYieldLtv ==
    /\ theta_yl = None
    /\ \E nm \in DOMAIN assumptions.calibration.presets :
         LET cfg == assumptions.calibration.presets[nm]
         IN  /\ {"gross_yield", "ltv"} \subseteq DOMAIN cfg
             /\ theta_yl' = [call |-> nm] @@ theta_from_yield_ltv(cfg.gross_yield, cfg.ltv)
    /\ UNCHANGED <<assumptions, preset_name, base_rate, pc, calib, theta,
                   preset_cfg, shocks_bp, occ_grid, oi, si, rows, df, occ_star,
                   gen_shocks, gen_occ>>

NextCalib == SelectCalibration \/ ThetaFromYieldLtv

SpecCalib == InitCalib /\ [][NextCalib]_vars

(***************************************************************************)
(* A run: main of plots.py (select_calibration, run_stress_test,           *)
(* plot_dscr_gap_surface).                                                 *)
(***************************************************************************)
RunCashflows ==
    {DefaultCashflow, [gross_annual_rent |-> FInt(1000), operating_cost_ratio |-> FZero]}

RunRateSpecs ==
    {RangeBp(a, b, c) : a \in Floats({-50, 0}), b \in Floats({-50, 50, 95}),
                        c \in Floats({-50, 0, 50})}
    \cup {LegacyBp(<<FInt(50), FInt(-50), FInt(0)>>)}

RunOccSpecs ==
    {RangeOcc(a, b, c) : a \in {Float(1, 2), FOne}, b \in {Float(1, 2), FOne},
                         c \in {Float(-1, 4), FZero, Float(1, 4)}}
    \cup {LegacyOcc(<<FOne, Float(1, 2)>>)}

RunCalibration ==
    [default_preset |-> "base",
     presets |-> ("base" :> [rent_to_debt_ratio |-> Float(1, 10)])
              @@ ("yield" :> YieldLtvPreset)
              @@ ("short" :> [gross_yield |-> Float(6, 100), ltv |-> Float(-6, 10)])
              @@ ("override" :> [rent_to_debt_ratio |-> Float(8, 100),
                                 occupancy_range_override |->
                                     [start |-> Float(3, 4), stop |-> FOne,
                                      step |-> Float(1, 4)]])]

Init ==
    /\ assumptions \in {Assumptions(cf, ir, rs, RunCalibration) :
                            cf \in RunCashflows, ir \in RunRateSpecs,
                            rs \in RunOccSpecs}
    /\ preset_name \in {NoName, "yield", "short", "override", "zzz"}
    /\ base_rate \in {Float(5, 100), Float(5, 1000)}
    /\ Fresh

\* run_stress_test, up to the loops: debt and the two grids
RunStressTest ==
    /\ pc = "calibrated"
    /\ LET s == get_rate_shocks_bp(assumptions)
           o == get_occupancy_grid(assumptions, preset_cfg)
       IN  IF theta = FZero
           THEN /\ df' = Raise("ZeroDivisionError", "float division by zero")
                /\ pc' = "failed"
                /\ UNCHANGED <<shocks_bp, occ_grid, oi, si>>
           ELSE IF ~IsOk(s)
           THEN /\ df' = s /\ pc' = "failed"
                /\ UNCHANGED <<shocks_bp, occ_grid, oi, si>>
           ELSE IF ~IsOk(o)
           THEN /\ df' = o /\ pc' = "failed"
                /\ shocks_bp' = s
                /\ UNCHANGED <<occ_grid, oi, si>>
           ELSE /\ shocks_bp' = s /\ occ_grid' = o
                /\ oi' = 1 /\ si' = 1
                /\ pc' = "sweep"
                /\ UNCHANGED df
    /\ UNCHANGED <<assumptions, preset_name, base_rate, calib, theta, preset_cfg,
                   rows, occ_star, gen_shocks, gen_occ, theta_yl>>

\* one pass through the body of the inner loop
SweepCell ==
    /\ pc = "sweep"
    /\ oi <= Len(occ_grid.value)
    /\ si <= Len(shocks_bp.value)
    /\ LET c == Cell(assumptions, base_rate, theta, occ_grid.value[oi],
                     shocks_bp.value[si])
           nxt == NextCell(oi, si, Len(shocks_bp.value))
       IN  IF IsOk(c)
           THEN /\ rows' = Append(rows, c.value)
                /\ oi' = nxt[1] /\ si' = nxt[2]
                /\ UNCHANGED <<pc, df>>
           ELSE /\ df' = c /\ pc' = "failed"
                /\ UNCHANGED <<rows, oi, si>>
    /\ UNCHANGED <<assumptions, preset_name, base_rate, calib, theta, preset_cfg,
                   shocks_bp, occ_grid, occ_star, gen_shocks, gen_occ, theta_yl>>

\* the loops are over: return pd.DataFrame(rows)
SweepReturn ==
    /\ pc = "sweep"
    /\ oi > Len(occ_grid.value) \/ Len(shocks_bp.value) = 0
    /\ df' = Ok(rows)
    /\ pc' = "done"
    /\ UNCHANGED <<assumptions, preset_name, base_rate, calib, theta, preset_cfg,
                   shocks_bp, occ_grid, oi, si, rows, occ_star, gen_shocks,
                   gen_occ, theta_yl>>

PlotDscrGapSurface ==
    /\ pc = "done"
    /\ LET r == plot_dscr_gap_surface(df.value, assumptions, theta, base_rate)
       IN  /\ occ_star' = r
           /\ pc' = IF IsOk(r) THEN "plotted" ELSE "failed"
    /\ UNCHANGED <<assumptions, preset_name, base_rate, calib, theta, preset_cfg,
                   shocks_bp, occ_grid, oi, si, rows, df, gen_shocks, gen_occ,
                   theta_yl>>

Next ==
    \/ SelectCalibration
    \/ RunStressTest
    \/ SweepCell
    \/ SweepReturn
    \/ PlotDscrGapSurface

Spec == Init /\ [][Next]_vars

(***************************************************************************)
(* Properties.  Each is stated from the quantities of the configuration,   *)
(* not through the operators that model the code it is about.              *)
(***************************************************************************)
Positive(x) == x # None /\ FLt(FZero, x)
ValidCashflow(a) ==
    /\ FLt(FZero, Rent(a))
    /\ FLe(FZero, OpexRatio(a))
    /\ FLt(OpexRatio(a), FOne)

\* base_rate + shock / 10000
RateOf(shock) == FAdd(base_rate, Float(shock.n, shock.d * 10000))

StrictlyIncreasing(s) == \A k \in 1..(Len(s) - 1) : FLt(s[k], s[k + 1])

\* the values of a column in the order of their first appearance
RECURSIVE DistinctInOrder(_)
DistinctInOrder(s) ==
    IF s = <<>> THEN <<>>
    ELSE LET init == DistinctInOrder(SubSeq(s, 1, Len(s) - 1))
         IN  IF Last(s) \in Range(init) THEN init ELSE Append(init, Last(s))

Column(table, column) == [k \in DOMAIN table |-> table[k][column]]

IsRangeBp(a) == "start_bp" \in DOMAIN a.interest_rate_stress
IsRangeOcc(a) == "occupancy_range" \in DOMAIN a.revenue_stress

\* C1: every row built for a cell carries interest_rate = base_rate +
\* shock/10000, net_cashflow = revenue*(1 - opex) - rate*debt and
\* dscr = revenue*(1 - opex) / (rate*debt), with revenue = rent*occupancy and
\* debt = rent/theta; rent 120000, opex 0.35, base rate 0.05, theta 0.1, shock
\* 0bp, occupancy 1.0 give net_cashflow 18000 and dscr 1.3.
C1_RowFormulas ==
    (ValidCashflow(assumptions) /\ Positive(theta)) =>
        \A k \in DOMAIN rows :
            LET row == rows[k]
                rate == RateOf(row.rate_shock_bp)
                revenue == FMul(Rent(assumptions), row.occupancy_multiplier)
                debt == FDiv(Rent(assumptions), theta)
                noi == FMul(revenue, FSub(FOne, OpexRatio(assumptions)))
            IN  /\ row.interest_rate = rate
                /\ FLt(FZero, rate)
                /\ row.net_cashflow = FSub(noi, FMul(rate, debt))
                /\ FMul(row.dscr, FMul(rate, debt)) = noi
                /\ (/\ Rent(assumptions) = FInt(120000)
                    /\ OpexRatio(assumptions) = Float(35, 100)
                    /\ base_rate = Float(5, 100)
                    /\ theta = Float(1, 10)
                    /\ row.rate_shock_bp = FZero
                    /\ row.occupancy_multiplier = FOne)
                   => (row.net_cashflow = FInt(18000) /\ row.dscr = Float(13, 10))

C1_Witness ==
    /\ IsOk(df)
    /\ theta = Float(1, 10)
    /\ base_rate = Float(5, 100)
    /\ assumptions.base_cashflow = DefaultCashflow
    /\ \E k \in DOMAIN df.value :
        /\ df.value[k].rate_shock_bp = FZero
        /\ df.value[k].occupancy_multiplier = FOne
        /\ df.value[k].net_cashflow = FInt(18000)
        /\ df.value[k].dscr = Float(13, 10)

\* C2: on a preset without occupancy override, the distinct rate_shock_bp
\* values and the distinct occupancy_multiplier values of the returned table
\* are the sequences the grid generator returns for the same configuration,
\* and run_stress_test succeeds whenever the grid generator returns grids
\* and all effective rates are positive.
C2_EngineGridsAreGeneratorGrids ==
    (df # None /\ ~HasOverride(preset_cfg) /\ Positive(theta)
        /\ ValidCashflow(assumptions)) =>
        LET g == generate_rate_shocks_bp(assumptions)
            h == generate_occupancy_grid(assumptions)
        IN  /\ IsOk(df) =>
                /\ IsOk(g) /\ IsOk(h)
                /\ DistinctInOrder(Column(df.value, "rate_shock_bp")) = g.value
                /\ DistinctInOrder(Column(df.value, "occupancy_multiplier")) = h.value
            /\ (/\ IsOk(g) /\ IsOk(h)
                /\ \A j \in DOMAIN g.value : FLt(FZero, RateOf(g.value[j])))
               => IsOk(df)

\* C3: with rent > 0, theta > 0 and both grids resolved, run_stress_test
\* raises the invalid-input error exactly when some cell of the Cartesian
\* product has effective rate <= 0; a failed run returns no table, a run
\* without such a cell returns the complete table.
C3_FailsIffNonPositiveRate ==
    (/\ df # None /\ IsOk(shocks_bp) /\ IsOk(occ_grid)
     /\ Positive(theta) /\ FLt(FZero, Rent(assumptions))) =>
        LET S == shocks_bp.value
            O == occ_grid.value
            bad == \E i \in DOMAIN O : \E j \in DOMAIN S : FLe(RateOf(S[j]), FZero)
        IN  /\ (df.kind = "ValueError") <=> bad
            /\ IsError(df) => (bad /\ "value" \notin DOMAIN df)
            /\ ~bad =>
                /\ IsOk(df)
                /\ Len(df.value) = Len(O) * Len(S)
                /\ \A i \in DOMAIN O : \A j \in DOMAIN S :
                     \E k \in DOMAIN df.value :
                        /\ df.value[k].occupancy_multiplier = O[i]
                        /\ df.value[k].rate_shock_bp = S[j]

C3_Witness ==
    /\ df.kind = "ValueError"
    /\ rows # <<>>
    /\ Positive(theta)

\* the grid of a range spec: start, start + step, ... up to stop, then stop
RangeGridOk(start, stop, step, result) ==
    (FLt(FZero, step) /\ FLe(start, stop)) =>
        /\ IsOk(result)
        /\ LET s == result.value
               n == Len(s)
               Term(k) == FAdd(start, FMul(step, FInt(k - 1)))
           IN  /\ n >= 1
               /\ s[1] = start
               /\ s[n] = stop
               /\ \A k \in 1..(n - 1) : s[k] = Term(k) /\ FLt(s[k], s[k + 1])
               /\ s[n] = Term(n) \/ FLt(stop, Term(n))
               /\ (start = stop) => s = <<start>>

TensTo(n) == [k \in 1..n |-> FInt(10 * (k - 1))]

\* C4: for a range spec with step > 0 and start <= stop the generated grid is
\* start, start+step, ... restricted to values <= stop, with stop always the
\* last element: {0,100,10} yields the 11 values 0,10,...,100, {0,95,10}
\* yields 0,10,...,90,95, and start = stop yields the single value start.
C4_InclusiveRange ==
    /\ (gen_shocks # None /\ IsRangeBp(assumptions)) =>
        LET ir == assumptions.interest_rate_stress
        IN  /\ RangeGridOk(ir.start_bp, ir.stop_bp, ir.step_bp, gen_shocks)
            /\ ir = RangeBp(FInt(0), FInt(100), FInt(10))
                => gen_shocks = Ok(TensTo(11))
            /\ ir = RangeBp(FInt(0), FInt(95), FInt(10))
                => gen_shocks = Ok(Append(TensTo(10), FInt(95)))
    /\ (gen_occ # None /\ IsRangeOcc(assumptions)) =>
        LET occ == assumptions.revenue_stress.occupancy_range
        IN  RangeGridOk(occ.start, occ.stop, occ.step, gen_occ)

C4_Witness ==
    /\ assumptions.interest_rate_stress = RangeBp(FInt(0), FInt(95), FInt(10))
    /\ gen_shocks = Ok(Append(TensTo(10), FInt(95)))
    /\ assumptions.revenue_stress = RangeOcc(Float(1, 2), Float(9, 10), Float(1, 4))
    /\ gen_occ = Ok(<<Float(1, 2), Float(3, 4), Float(9, 10)>>)

\* whether a run resolved a {start, stop, step} spec with step <= 0
NonPositiveStepBp(a) == IsRangeBp(a) /\ FLe(a.interest_rate_stress.step_bp, FZero)
NonPositiveStepOcc(a) == IsRangeOcc(a) /\ FLe(a.revenue_stress.occupancy_range.step, FZero)

\* C5: a grid resolution from a {start, stop, step} spec with step <= 0 ends
\* in an error and yields no grid and no result table, in the grid generator
\* and in the grid resolution of run_stress_test, on either axis.
C5_NonPositiveStepFails ==
    /\ NonPositiveStepBp(assumptions) =>
        /\ IsError(generate_rate_shocks_bp(assumptions))
        /\ pc # "sweep"
        /\ df # None => IsError(df)
    /\ (NonPositiveStepOcc(assumptions) /\ ~HasOverride(preset_cfg)) =>
        /\ IsError(generate_occupancy_grid(assumptions))
        /\ pc # "sweep"
        /\ df # None => IsError(df)

\* C6: the sequence the grid generator returns is strictly increasing with
\* no repeated value, and for an explicit legacy collection it holds the
\* supplied values in ascending order, repeated values included.
C6_GeneratorStrictlyIncreasing ==
    /\ IsOk(gen_shocks) =>
        /\ StrictlyIncreasing(gen_shocks.value)
        /\ ~IsRangeBp(assumptions) =>
            Range(gen_shocks.value) = Range(assumptions.interest_rate_stress.shocks_bp)
    /\ IsOk(gen_occ) =>
        /\ StrictlyIncreasing(gen_occ.value)
        /\ ~IsRangeOcc(assumptions) =>
            Range(gen_occ.value) = Range(assumptions.revenue_stress.occupancy_multipliers)

Has(cfg, field) == field \in DOMAIN cfg

\* the decision table of the resolver: what a preset body resolves to
\* ("direct", "yield_ltv", "rent_balance" or "none")
Encoding(cfg) ==
    IF Has(cfg, "rent_to_debt_ratio") THEN "direct"
    ELSE IF Has(cfg, "gross_yield") /\ Has(cfg, "ltv") THEN "yield_ltv"
    ELSE IF Has(cfg, "annual_rent_gbp") /\ Has(cfg, "mortgage_balance_gbp")
    THEN "rent_balance"
    ELSE "none"

Requested(a) ==
    IF preset_name # NoName THEN preset_name
    ELSE IF Has(a.calibration, "default_preset") THEN a.calibration.default_preset
    ELSE NoName

\* x = n / m, for m # 0
IsQuotient(x, n, m) == FMul(x, m) = n

\* C7: select_calibration follows its decision table: the effective name is
\* the requested one or the default; an unknown name is a not-found error
\* listing the preset names; theta comes from the first encoding present
\* (rent_to_debt_ratio, then gross_yield/ltv, then rent/balance); no encoding
\* is a missing-field error; success returns (theta, name, body).
C7_DecisionTable ==
    calib # None =>
        LET presets == assumptions.calibration.presets
            nm == Requested(assumptions)
        IN  IF nm \notin DOMAIN presets
            THEN /\ calib.kind = "ValueError"
                 /\ calib.msg = "Unknown preset"
                 /\ calib.available = DOMAIN presets
            ELSE LET cfg == presets[nm]
                     enc == Encoding(cfg)
                 IN  /\ enc = "none" =>
                            (calib.kind = "ValueError" /\ calib.msg # "Unknown preset")
                     /\ enc = "direct" =>
                            /\ IsOk(calib)
                            /\ calib.value.theta = cfg.rent_to_debt_ratio
                     /\ (enc = "yield_ltv" /\ cfg.ltv # FZero) =>
                            /\ IsOk(calib)
                            /\ IsQuotient(calib.value.theta, cfg.gross_yield, cfg.ltv)
                     /\ (enc = "rent_balance" /\ cfg.mortgage_balance_gbp # FZero) =>
                            /\ IsOk(calib)
                            /\ IsQuotient(calib.value.theta, cfg.annual_rent_gbp,
                                          cfg.mortgage_balance_gbp)
                     /\ IsOk(calib) =>
                            /\ calib.value.name = nm
                            /\ calib.value.cfg = cfg
                            /\ theta = calib.value.theta
                            /\ preset_cfg = cfg
                     /\ cfg = [rent_to_debt_ratio |-> Float(8, 100)] =>
                            calib.value.theta = Float(8, 100)
                     /\ cfg = [gross_yield |-> Float(6, 100), ltv |-> Float(6, 10)] =>
                            calib.value.theta = Float(1, 10)

\* a preset with the yield/LTV pair and the rent/balance pair, and one with
\* only half of the yield/LTV pair before the rent/balance pair
C7_Witness ==
    /\ IsOk(calib)
    /\ preset_name = NoName
    /\ calib.value.name = "a"
    /\ \/ /\ DOMAIN calib.value.cfg = {"gross_yield", "ltv", "annual_rent_gbp", "mortgage_balance_gbp"}
          /\ calib.value.theta = Float(1, 10)
       \/ /\ DOMAIN calib.value.cfg = {"gross_yield", "annual_rent_gbp", "mortgage_balance_gbp"}
          /\ calib.value.theta = Float(12, 100)

\* C8: deriving theta from {gross_yield, ltv} with ltv <= 0 ends in an error
\* and returns no theta, in theta_from_yield_ltv and in the yield/LTV branch
\* of select_calibration; every theta resolved from a positive gross_yield
\* is > 0.
C8_NonPositiveLtvFails ==
    /\ theta_yl # None =>
        LET cfg == assumptions.calibration.presets[theta_yl.call]
        IN  FLe(cfg.ltv, FZero) => IsError(theta_yl)
    /\ calib # None =>
        LET presets == assumptions.calibration.presets
            nm == Requested(assumptions)
        IN  (nm \in DOMAIN presets /\ Encoding(presets[nm]) = "yield_ltv") =>
                /\ FLe(presets[nm].ltv, FZero) => IsError(calib)
                /\ (IsOk(calib) /\ FLt(FZero, presets[nm].gross_yield)) =>
                        FLt(FZero, calib.value.theta)

\* the occupancy at which the line through (o1, d1) and (o2, d2) reaches 1
CrossingOfOne(o1, d1, o2, d2) ==
    FAdd(o1, FDiv(FMul(FSub(FOne, d1), FSub(o2, o1)), FSub(d2, d1)))

Brackets(r1, r2) ==
    /\ r1.rate_shock_bp = r2.rate_shock_bp
    /\ FLe(r1.dscr, FOne) /\ FLe(FOne, r2.dscr)
    /\ r1.dscr # r2.dscr

\* C9: the analytical break-even occupancy o* of a swept rate is the
\* occupancy at which DSCR equals 1, and the linear interpolation of the
\* swept DSCR between two rows of that rate that bracket 1 crosses 1 at o*.
C9_BreakEvenMatchesSweep ==
    (IsOk(occ_star) /\ Positive(theta) /\ ValidCashflow(assumptions)) =>
        LET x == Centers(df.value, "rate_shock_bp")
            rent == Rent(assumptions)
            debt == FDiv(rent, theta)
        IN  /\ Len(occ_star.value) = Len(x)
            /\ \A k \in DOMAIN x :
                LET o == occ_star.value[k]
                IN  /\ dscr(FMul(rent, o), OpexRatio(assumptions), RateOf(x[k]), debt)
                         = Ok(FOne)
                    /\ \A i, j \in DOMAIN df.value :
                        LET r1 == df.value[i]
                            r2 == df.value[j]
                        IN  (r1.rate_shock_bp = x[k] /\ Brackets(r1, r2)) =>
                                CrossingOfOne(r1.occupancy_multiplier, r1.dscr,
                                              r2.occupancy_multiplier, r2.dscr) = o

C9_Witness ==
    /\ IsOk(occ_star)
    /\ Positive(theta)
    /\ \E i, j \in DOMAIN df.value :
        /\ Brackets(df.value[i], df.value[j])
        /\ FLt(df.value[i].dscr, FOne) /\ FLt(FOne, df.value[j].dscr)

\* C10: a returned table has len(rate grid) * len(occupancy grid) rows, no
\* two rows share a (rate_shock_bp, occupancy_multiplier) pair, and the rows
\* are in occupancy-outer, rate-shock-inner order of the resolved grids.
C10_TableShape ==
    IsOk(df) =>
        LET t == df.value
            S == shocks_bp.value
            O == occ_grid.value
        IN  /\ Len(t) = Len(S) * Len(O)
            /\ \A i \in DOMAIN O : \A j \in DOMAIN S :
                /\ t[(i - 1) * Len(S) + j].occupancy_multiplier = O[i]
                /\ t[(i - 1) * Len(S) + j].rate_shock_bp = S[j]
            /\ \A k, l \in DOMAIN t :
                (/\ t[k].rate_shock_bp = t[l].rate_shock_bp
                 /\ t[k].occupancy_multiplier = t[l].occupancy_multiplier) => k = l

C10_Witness ==
    /\ IsOk(df)
    /\ Len(shocks_bp.value) >= 2
    /\ Len(occ_grid.value) >= 3
    /\ Len(df.value) = Len(shocks_bp.value) * Len(occ_grid.value)

====
